---- MODULE Spec2Model ----
(***************************************************************************)
(* The css selector builder of src/task/08-objects-tasks.js as a state     *)
(* machine.  The state is the set of objects the facade has created (the   *)
(* heap), the outcome of the last call (ret) and, as history, the fragment *)
(* calls each Selector has accepted (calls).  Strings are TLA+ strings,    *)
(* template literals and += are \o.                                        *)
(***************************************************************************)
EXTENDS Integers, Sequences, FiniteSets, TLC

VARIABLES heap, ret, calls

vars == <<heap, ret, calls>>

---------------------------------------------------------------------------
(* Bounds and input sets *)

\* objects created plus method calls accepted in a run of SpecTree
MaxSize == 3
\* fragment calls a Selector accepts in a run of Spec (the facade's included)
MaxParts == 5

Values == {"", "a"}
TreeValues == {"a"}
Combinators == {" ", "+"}

---------------------------------------------------------------------------
(* Values of the program *)

DuplicateError == "Element, id and pseudo-element should not occur more then one time inside the selector"
OrderError == "Selector parts should be arranged in the following order: element, id, class, attribute, pseudo-class, pseudo-element"
\* what the engine throws when stringify is called on something that has none
TypeError == "TypeError"

\* the keys of Selector's cache, in the order stringify renders them
Types == <<"element", "id", "className", "attribute", "pseudoClass", "pseudoElement">>

\* the method of Selector.prototype that writes each key
Methods == <<"element", "id", "class", "attr", "pseudoClass", "pseudoElement">>

\* ToBoolean of a string, as in if (this.cache.id)
Truthy(s) == s # ""

\* how a call ends: throw new Error(msg), or return with the cache as left
Throw(cache, msg) == [threw |-> TRUE, error |-> msg, cache |-> cache]
Return(cache) == [threw |-> FALSE, error |-> "", cache |-> cache]

\* new Selector(type, value)
Selector(type, value) ==
    LET cache == [element |-> "", id |-> "", className |-> <<>>,
                  attribute |-> <<>>, pseudoClass |-> <<>>, pseudoElement |-> ""]
    IN  [kind |-> "Selector",
         cache |-> IF type \in {"className", "attribute", "pseudoClass"}
                   THEN [cache EXCEPT ![type] = <<value>>]
                   ELSE [cache EXCEPT ![type] = value]]

\* mutant: selector2 is never assigned
CombineSelector_noSelector2(selector1, combinator, selector2) ==
    [kind |-> "CombineSelector", selector1 |-> selector1,
     combinator |-> combinator, selector2 |-> 0]

\* new CombineSelector(selector1, combinator, selector2)
CombineSelector(selector1, combinator, selector2) ==
    [kind |-> "CombineSelector", selector1 |-> selector1,
     combinator |-> combinator, selector2 |-> selector2]

---------------------------------------------------------------------------
(* Selector.prototype *)

\* array.map(x => pre + x + post).join('')
RECURSIVE MapJoin(_, _, _)
MapJoin(array, pre, post) ==
    IF array = <<>> THEN ""
    ELSE pre \o Head(array) \o post \o MapJoin(Tail(array), pre, post)

\* mutant: the attributes rendered before the classes
Selector_stringify_attributesFirst(cache) ==
    LET r0 == cache.element
        r1 == IF Truthy(cache.id) THEN r0 \o "#" \o cache.id ELSE r0
        r2 == r1 \o MapJoin(cache.attribute, "[", "]")
        r3 == r2 \o MapJoin(cache.className, ".", "")
        r4 == r3 \o MapJoin(cache.pseudoClass, ":", "")
    IN  IF Truthy(cache.pseudoElement) THEN r4 \o "::" \o cache.pseudoElement ELSE r4

Selector_stringify(cache) ==
    LET r0 == cache.element
        r1 == IF Truthy(cache.id) THEN r0 \o "#" \o cache.id ELSE r0
        r2 == r1 \o MapJoin(cache.className, ".", "")
        r3 == r2 \o MapJoin(cache.attribute, "[", "]")
        r4 == r3 \o MapJoin(cache.pseudoClass, ":", "")
    IN  IF Truthy(cache.pseudoElement) THEN r4 \o "::" \o cache.pseudoElement ELSE r4

\* mutant: the second throw is missing, the call returns this
Selector_element_returns(cache) ==
    IF Truthy(cache.element) THEN Throw(cache, DuplicateError)
    ELSE Return(cache)

\* mutant: the order is checked before the duplicate
Selector_element_orderFirst(cache) ==
    IF \/ Truthy(cache.id)
       \/ Len(cache.className) # 0
       \/ Len(cache.attribute) # 0
       \/ Len(cache.pseudoClass) # 0
       \/ Truthy(cache.pseudoElement)
    THEN Throw(cache, OrderError)
    ELSE Throw(cache, DuplicateError)

Selector_element(cache) ==
    IF Truthy(cache.element) THEN Throw(cache, DuplicateError)
    ELSE Throw(cache, OrderError)

\* mutant: the arrays are tested by their joined text, not by their length
Selector_id_joinedCheck(cache, value) ==
    IF Truthy(cache.id) THEN Throw(cache, DuplicateError)
    ELSE IF \/ Truthy(MapJoin(cache.className, "", ""))
            \/ Truthy(MapJoin(cache.attribute, "", ""))
            \/ Truthy(MapJoin(cache.pseudoClass, "", ""))
            \/ Truthy(cache.pseudoElement)
         THEN Throw(cache, OrderError)
    ELSE Return([cache EXCEPT !.id = value])

\* mutant: the duplicate check is missing
Selector_id_noDuplicateCheck(cache, value) ==
    IF \/ Len(cache.className) # 0
       \/ Len(cache.attribute) # 0
       \/ Len(cache.pseudoClass) # 0
       \/ Truthy(cache.pseudoElement)
    THEN Throw(cache, OrderError)
    ELSE Return([cache EXCEPT !.id = value])

\* mutant: the order is checked before the duplicate
Selector_id_orderFirst(cache, value) ==
    IF \/ Len(cache.className) # 0
       \/ Len(cache.attribute) # 0
       \/ Len(cache.pseudoClass) # 0
       \/ Truthy(cache.pseudoElement)
    THEN Throw(cache, OrderError)
    ELSE IF Truthy(cache.id) THEN Throw(cache, DuplicateError)
    ELSE Return([cache EXCEPT !.id = value])

Selector_id(cache, value) ==
    IF Truthy(cache.id) THEN Throw(cache, DuplicateError)
    ELSE IF \/ Len(cache.className) # 0
            \/ Len(cache.attribute) # 0
            \/ Len(cache.pseudoClass) # 0
            \/ Truthy(cache.pseudoElement)
         THEN Throw(cache, OrderError)
    ELSE Return([cache EXCEPT !.id = value])

\* mutant: the value is pushed before the order is checked
Selector_class_pushFirst(cache, value) ==
    LET pushed == [cache EXCEPT !.className = Append(@, value)]
    IN  IF \/ Len(cache.attribute) # 0
           \/ Len(cache.pseudoClass) # 0
           \/ Truthy(cache.pseudoElement)
        THEN Throw(pushed, OrderError)
        ELSE Return(pushed)

\* mutant: the check of pseudoClass.length is missing
Selector_class_noPseudoClassCheck(cache, value) ==
    IF Len(cache.attribute) # 0 \/ Truthy(cache.pseudoElement)
    THEN Throw(cache, OrderError)
    ELSE Return([cache EXCEPT !.className = Append(@, value)])

Selector_class(cache, value) ==
    IF \/ Len(cache.attribute) # 0
       \/ Len(cache.pseudoClass) # 0
       \/ Truthy(cache.pseudoElement)
    THEN Throw(cache, OrderError)
    ELSE Return([cache EXCEPT !.className = Append(@, value)])

\* mutant: the value is pushed before the order is checked
Selector_attr_pushFirst(cache, value) ==
    LET pushed == [cache EXCEPT !.attribute = Append(@, value)]
    IN  IF Len(cache.pseudoClass) # 0 \/ Truthy(cache.pseudoElement)
        THEN Throw(pushed, OrderError)
        ELSE Return(pushed)

Selector_attr(cache, value) ==
    IF Len(cache.pseudoClass) # 0 \/ Truthy(cache.pseudoElement)
    THEN Throw(cache, OrderError)
    ELSE Return([cache EXCEPT !.attribute = Append(@, value)])

\* mutant: unshift in place of push
Selector_pseudoClass_unshift(cache, value) ==
    IF Truthy(cache.pseudoElement) THEN Throw(cache, OrderError)
    ELSE Return([cache EXCEPT !.pseudoClass = <<value>> \o @])

Selector_pseudoClass(cache, value) ==
    IF Truthy(cache.pseudoElement) THEN Throw(cache, OrderError)
    ELSE Return([cache EXCEPT !.pseudoClass = Append(@, value)])

Selector_pseudoElement(cache, value) ==
    IF Truthy(cache.pseudoElement) THEN Throw(cache, DuplicateError)
    ELSE Return([cache EXCEPT !.pseudoElement = value])

---------------------------------------------------------------------------
(* stringify, dispatched on the object it is called on *)

\* a reference that holds an object of the heap h
IsObject(h, n) == n \in DOMAIN h

\* mutant: the template literal without its two spaces
CombineSelector_stringify_noSpaces(s1, combinator, s2) ==
    s1 \o combinator \o s2

\* `${this.selector1.stringify()} ${this.combinator} ${this.selector2.stringify()}`
CombineSelector_stringify(s1, combinator, s2) ==
    s1 \o " " \o combinator \o " " \o s2

RECURSIVE stringify(_, _)
stringify(h, n) ==
    IF ~IsObject(h, n) THEN [threw |-> TRUE, error |-> TypeError, value |-> ""]
    ELSE IF h[n].kind = "Selector"
         THEN [threw |-> FALSE, error |-> "", value |-> Selector_stringify(h[n].cache)]
    ELSE LET s1 == stringify(h, h[n].selector1)
             s2 == stringify(h, h[n].selector2)
         IN  IF s1.threw THEN s1
             ELSE IF s2.threw THEN s2
             ELSE [threw |-> FALSE, error |-> "",
                   value |-> CombineSelector_stringify(s1.value, h[n].combinator,
                                                       s2.value)]

---------------------------------------------------------------------------
(* The state machine *)

NoCall == [op |-> "none", node |-> 0, arg |-> "", threw |-> FALSE,
           error |-> "", value |-> "", result |-> 0]

Init ==
    /\ heap = <<>>
    /\ calls = <<>>
    /\ ret = NoCall

\* a facade function: the new object is returned
Create(op, arg, object, accepted) ==
    /\ heap' = Append(heap, object)
    /\ calls' = Append(calls, accepted)
    /\ ret' = [op |-> op, node |-> 0, arg |-> arg, threw |-> FALSE,
               error |-> "", value |-> "", result |-> Len(heap) + 1]

\* mutant: an accepted call returns a copy that holds the new fragment
Invoke_returnsCopy(n, op, type, arg, res) ==
    /\ heap' = IF res.threw THEN heap
               ELSE Append(heap, [kind |-> "Selector", cache |-> res.cache])
    /\ calls' = IF res.threw THEN calls
                ELSE Append(calls, Append(calls[n], [type |-> type, value |-> arg]))
    /\ ret' = [op |-> op, node |-> n, arg |-> arg, threw |-> res.threw,
               error |-> res.error, value |-> "",
               result |-> IF res.threw THEN 0 ELSE Len(heap) + 1]

\* mutant: one cache object shared by every Selector
Invoke_sharedCache(n, op, type, arg, res) ==
    /\ heap' = [m \in DOMAIN heap |->
                  IF heap[m].kind = "Selector"
                  THEN [heap[m] EXCEPT !.cache = res.cache] ELSE heap[m]]
    /\ calls' = IF res.threw THEN calls
                ELSE [calls EXCEPT ![n] = Append(@, [type |-> type, value |-> arg])]
    /\ ret' = [op |-> op, node |-> n, arg |-> arg, threw |-> res.threw,
               error |-> res.error, value |-> "",
               result |-> IF res.threw THEN 0 ELSE n]

\* a method of Selector.prototype called on object n: res is how it ended
Invoke(n, op, type, arg, res) ==
    /\ heap' = [heap EXCEPT ![n].cache = res.cache]
    /\ calls' = IF res.threw THEN calls
                ELSE [calls EXCEPT ![n] = Append(@, [type |-> type, value |-> arg])]
    /\ ret' = [op |-> op, node |-> n, arg |-> arg, threw |-> res.threw,
               error |-> res.error, value |-> "",
               result |-> IF res.threw THEN 0 ELSE n]

IsSelector(n) == n \in DOMAIN heap /\ heap[n].kind = "Selector"

(* cssSelectorBuilder *)

builder_element(value) ==
    Create("builder.element", value, Selector("element", value),
           <<[type |-> "element", value |-> value]>>)

builder_id(value) ==
    Create("builder.id", value, Selector("id", value),
           <<[type |-> "id", value |-> value]>>)

builder_class(value) ==
    Create("builder.class", value, Selector("className", value),
           <<[type |-> "className", value |-> value]>>)

builder_attr(value) ==
    Create("builder.attr", value, Selector("attribute", value),
           <<[type |-> "attribute", value |-> value]>>)

builder_pseudoClass(value) ==
    Create("builder.pseudoClass", value, Selector("pseudoClass", value),
           <<[type |-> "pseudoClass", value |-> value]>>)

builder_pseudoElement(value) ==
    Create("builder.pseudoElement", value, Selector("pseudoElement", value),
           <<[type |-> "pseudoElement", value |-> value]>>)

\* mutant: the new object is stored as its own second operand
builder_combine_selfOperand(selector1, combinator, selector2) ==
    /\ selector1 \in DOMAIN heap
    /\ selector2 \in DOMAIN heap
    /\ Create("builder.combine", combinator,
              CombineSelector(selector1, combinator, Len(heap) + 1), <<>>)

builder_combine(selector1, combinator, selector2) ==
    /\ selector1 \in DOMAIN heap
    /\ selector2 \in DOMAIN heap
    /\ Create("builder.combine", combinator,
              CombineSelector(selector1, combinator, selector2), <<>>)

(* calls on an object the facade returned *)

Call_element(n) ==
    /\ IsSelector(n)
    /\ Invoke(n, "element", "element", "", Selector_element(heap[n].cache))

Call_id(n, value) ==
    /\ IsSelector(n)
    /\ Invoke(n, "id", "id", value, Selector_id(heap[n].cache, value))

Call_class(n, value) ==
    /\ IsSelector(n)
    /\ Invoke(n, "class", "className", value, Selector_class(heap[n].cache, value))

Call_attr(n, value) ==
    /\ IsSelector(n)
    /\ Invoke(n, "attr", "attribute", value, Selector_attr(heap[n].cache, value))

Call_pseudoClass(n, value) ==
    /\ IsSelector(n)
    /\ Invoke(n, "pseudoClass", "pseudoClass", value,
              Selector_pseudoClass(heap[n].cache, value))

Call_pseudoElement(n, value) ==
    /\ IsSelector(n)
    /\ Invoke(n, "pseudoElement", "pseudoElement", value,
              Selector_pseudoElement(heap[n].cache, value))

\* mutant: stringify empties the className array it renders
Call_stringify_consuming(n) ==
    /\ n \in DOMAIN heap
    /\ LET res == stringify(heap, n)
       IN  ret' = [op |-> "stringify", node |-> n, arg |-> "", threw |-> res.threw,
                   error |-> res.error, value |-> res.value, result |-> 0]
    /\ heap' = IF heap[n].kind = "Selector"
               THEN [heap EXCEPT ![n].cache.className = <<>>] ELSE heap
    /\ UNCHANGED calls

Call_stringify(n) ==
    /\ n \in DOMAIN heap
    /\ LET res == stringify(heap, n)
       IN  ret' = [op |-> "stringify", node |-> n, arg |-> "", threw |-> res.threw,
                   error |-> res.error, value |-> res.value, result |-> 0]
    /\ UNCHANGED <<heap, calls>>

(* Spec: one chain, a facade call and then calls on the Selector it returned *)

Next ==
    \/ \E value \in Values : heap = <<>> /\ builder_element(value)
    \/ \E value \in Values : heap = <<>> /\ builder_id(value)
    \/ \E value \in Values : heap = <<>> /\ builder_class(value)
    \/ \E value \in Values : heap = <<>> /\ builder_attr(value)
    \/ \E value \in Values : heap = <<>> /\ builder_pseudoClass(value)
    \/ \E value \in Values : heap = <<>> /\ builder_pseudoElement(value)
    \/ \E n \in DOMAIN heap : Call_element(n)
    \/ \E n \in DOMAIN heap, value \in Values :
          Len(calls[n]) < MaxParts /\ Call_id(n, value)
    \/ \E n \in DOMAIN heap, value \in Values :
          Len(calls[n]) < MaxParts /\ Call_class(n, value)
    \/ \E n \in DOMAIN heap, value \in Values :
          Len(calls[n]) < MaxParts /\ Call_attr(n, value)
    \/ \E n \in DOMAIN heap, value \in Values :
          Len(calls[n]) < MaxParts /\ Call_pseudoClass(n, value)
    \/ \E n \in DOMAIN heap, value \in Values :
          Len(calls[n]) < MaxParts /\ Call_pseudoElement(n, value)
    \/ \E n \in DOMAIN heap : Call_stringify(n)

Spec == Init /\ [][Next]_vars

(* SpecTree: several objects, combined and called in any interleaving *)

\* the objects of the heap plus the method calls they have accepted
RECURSIVE Size(_)
Size(cs) ==
    IF cs = <<>> THEN 0
    ELSE (IF Len(Head(cs)) > 1 THEN Len(Head(cs)) ELSE 1) + Size(Tail(cs))

Room == Size(calls) < MaxSize

NextTree ==
    \/ \E value \in TreeValues : Room /\ builder_element(value)
    \/ \E value \in TreeValues : Room /\ builder_id(value)
    \/ \E value \in TreeValues : Room /\ builder_class(value)
    \/ \E value \in TreeValues : Room /\ builder_attr(value)
    \/ \E value \in TreeValues : Room /\ builder_pseudoClass(value)
    \/ \E value \in TreeValues : Room /\ builder_pseudoElement(value)
    \/ \E selector1, selector2 \in DOMAIN heap, combinator \in Combinators :
          Room /\ builder_combine(selector1, combinator, selector2)
    \/ \E n \in DOMAIN heap : Call_element(n)
    \/ \E n \in DOMAIN heap, value \in TreeValues :
          Room /\ Call_id(n, value)
    \/ \E n \in DOMAIN heap, value \in TreeValues :
          Room /\ Call_class(n, value)
    \/ \E n \in DOMAIN heap, value \in TreeValues :
          Room /\ Call_attr(n, value)
    \/ \E n \in DOMAIN heap, value \in TreeValues :
          Room /\ Call_pseudoClass(n, value)
    \/ \E n \in DOMAIN heap, value \in TreeValues :
          Room /\ Call_pseudoElement(n, value)
    \/ \E n \in DOMAIN heap : Call_stringify(n)

SpecTree == Init /\ [][NextTree]_vars

---------------------------------------------------------------------------
(* Vocabulary of the properties *)

FacadeOps == {"builder.element", "builder.id", "builder.class", "builder.attr",
              "builder.pseudoClass", "builder.pseudoElement"}
MethodOps == {Methods[i] : i \in DOMAIN Methods}

\* the category index of a key: element < id < class < attribute < pseudo-class < pseudo-element
Index(type) == CHOOSE i \in DOMAIN Types : Types[i] = type
\* the key a method writes
TypeOf(op) == Types[CHOOSE i \in DOMAIN Methods : Methods[i] = op]

SingletonTypes == {"element", "id", "pseudoElement"}

\* the call the last step made, as an entry of calls
LastCall == [type |-> TypeOf(ret.op), value |-> ret.arg]

\* some accepted call of the history cs wrote the key type
HasCall(cs, type) == \E i \in DOMAIN cs : cs[i].type = type

\* a chain of calls in non-decreasing category order, element, id and
\* pseudo-element at most once
ValidChain(cs) ==
    \A i \in 1..(Len(cs) - 1) :
        /\ Index(cs[i].type) <= Index(cs[i + 1].type)
        /\ cs[i].type \in SingletonTypes => Index(cs[i].type) < Index(cs[i + 1].type)

\* the text of one fragment; an element, id or pseudo-element is set when its
\* value is a non-empty string
Fragment(call) ==
    CASE call.type = "element" -> call.value
      [] call.type = "id" -> IF call.value = "" THEN "" ELSE "#" \o call.value
      [] call.type = "className" -> "." \o call.value
      [] call.type = "attribute" -> "[" \o call.value \o "]"
      [] call.type = "pseudoClass" -> ":" \o call.value
      [] call.type = "pseudoElement" -> IF call.value = "" THEN "" ELSE "::" \o call.value

\* the fragments of one category, in the order the calls were made
RECURSIVE Fragments(_, _)
Fragments(cs, type) ==
    IF cs = <<>> THEN ""
    ELSE (IF Head(cs).type = type THEN Fragment(Head(cs)) ELSE "")
         \o Fragments(Tail(cs), type)

\* what a Selector that accepted the calls cs is to render
Expected(cs) ==
    Fragments(cs, "element") \o Fragments(cs, "id") \o Fragments(cs, "className")
    \o Fragments(cs, "attribute") \o Fragments(cs, "pseudoClass")
    \o Fragments(cs, "pseudoElement")

\* a key of the cache holds something: a non-empty string, or an array with an entry
Occupied(cache, type) ==
    IF type \in SingletonTypes THEN cache[type] # "" ELSE Len(cache[type]) # 0

\* the highest category index present in the cache, 0 when it holds nothing
Highest(cache) ==
    LET present == {i \in DOMAIN Types : Occupied(cache, Types[i])}
    IN  IF present = {} THEN 0 ELSE CHOOSE i \in present : \A j \in present : j <= i

---------------------------------------------------------------------------
(* Properties of one chain, checked under Spec *)

\* C1: in a chain of a facade call and fragment calls in non-decreasing
\* category order, with element, id and pseudo-element at most once, no call
\* throws, and stringify() returns the element, '#'+id, '.'+class...,
\* '['+attribute+']'..., ':'+pseudoClass..., '::'+pseudoElement of the calls
\* made, each once and in the order of the calls.
C1_ValidChainStringifies ==
    /\ (ret.op \in MethodOps /\ ret.threw)
          => ~ValidChain(Append(calls[ret.node], LastCall))
    /\ (ret.op = "stringify" /\ IsSelector(ret.node) /\ ValidChain(calls[ret.node]))
          => (~ret.threw /\ ret.value = Expected(calls[ret.node]))

C1_Witness ==
    /\ ret.op = "stringify"
    /\ IsSelector(ret.node)
    /\ ValidChain(calls[ret.node])
    /\ Len(calls[ret.node]) = 5
    /\ ret.value = "a#a.a.::a"

\* C2 as stated: a call of element, id, class, attr or pseudoClass whose
\* category index is lower than the highest one present on the node raises
\* the ordering error.
C2_LowerCategoryRaisesOrderError ==
    [][(/\ ret'.op \in MethodOps \ {"pseudoElement"}
        /\ Index(TypeOf(ret'.op)) < Highest(heap[ret'.node].cache))
          => (ret'.threw /\ ret'.error = OrderError)]_vars

\* C2, amended: such a call never succeeds; it raises the duplicate error when
\* it is element or id and that slot of the node is itself non-empty, and the
\* ordering error otherwise.
C2_LowerCategoryIsRejected ==
    [][(/\ ret'.op \in MethodOps \ {"pseudoElement"}
        /\ Index(TypeOf(ret'.op)) < Highest(heap[ret'.node].cache))
          => /\ ret'.threw
             /\ ret'.error =
                  IF /\ ret'.op \in {"element", "id"}
                     /\ heap[ret'.node].cache[TypeOf(ret'.op)] # ""
                  THEN DuplicateError ELSE OrderError]_vars

C2_Witness ==
    /\ ret.op = "class"
    /\ ret.threw
    /\ ret.error = OrderError
    /\ Highest(heap[ret.node].cache) = Index("pseudoClass")
    /\ heap[ret.node].cache.id # ""

\* C3: once id has been added to a node, a further id(value) raises the
\* duplicate error, and so does a further pseudoElement(value) once a
\* pseudo-element has been added, whatever the values and the other fragments.
C3_SecondSingletonRaisesDuplicateError ==
    [][/\ (ret'.op = "id" /\ HasCall(calls[ret'.node], "id"))
           => (ret'.threw /\ ret'.error = DuplicateError)
       /\ (ret'.op = "pseudoElement" /\ HasCall(calls[ret'.node], "pseudoElement"))
           => (ret'.threw /\ ret'.error = DuplicateError)]_vars

\* C4 as stated: element() on a node the facade's element(...) created and
\* that has since received id and class raises the ordering error.
C4_ElementAgainRaisesOrderError ==
    (/\ ret.op = "element"
     /\ calls[ret.node][1].type = "element"
     /\ HasCall(calls[ret.node], "id")
     /\ HasCall(calls[ret.node], "className"))
        => (ret.threw /\ ret.error = OrderError)

\* C4, amended: it raises the duplicate error when the value given to the
\* facade's element(...) was a non-empty string, and the ordering error only
\* when that value was the empty string.
C4_ElementAgainRaisesDuplicateError ==
    (/\ ret.op = "element"
     /\ calls[ret.node][1].type = "element"
     /\ HasCall(calls[ret.node], "id")
     /\ HasCall(calls[ret.node], "className"))
        => /\ ret.threw
           /\ ret.error = IF calls[ret.node][1].value # ""
                          THEN DuplicateError ELSE OrderError

C4_Witness ==
    /\ ret.op = "element"
    /\ ret.error = DuplicateError
    /\ calls[ret.node][1] = [type |-> "element", value |-> "a"]
    /\ HasCall(calls[ret.node], "id")
    /\ HasCall(calls[ret.node], "className")

\* C5: a fragment call that throws leaves all six slots of the node as they
\* were, so stringify() returns the same string before and after it.
C5_RejectedCallChangesNothing ==
    [][(ret'.op \in MethodOps /\ ret'.threw)
          => /\ heap'[ret'.node].cache = heap[ret'.node].cache
             /\ stringify(heap', ret'.node) = stringify(heap, ret'.node)]_vars

C5_Witness ==
    /\ ret.op = "attr"
    /\ ret.threw
    /\ Len(heap[ret.node].cache.className) = 2
    /\ Len(heap[ret.node].cache.pseudoClass) = 1

---------------------------------------------------------------------------
(* Properties of trees of objects, checked under SpecTree *)

\* the key the facade function op fills
FacadeTypeOf(op) ==
    CASE op = "builder.element" -> "element"
      [] op = "builder.id" -> "id"
      [] op = "builder.class" -> "className"
      [] op = "builder.attr" -> "attribute"
      [] op = "builder.pseudoClass" -> "pseudoClass"
      [] op = "builder.pseudoElement" -> "pseudoElement"

IsCombine(n) == n \in DOMAIN heap /\ heap[n].kind = "CombineSelector"

\* the operands and combinators under node n, left to right
RECURSIVE Tokens(_)
Tokens(n) ==
    IF heap[n].kind = "Selector" THEN <<Expected(calls[n])>>
    ELSE Tokens(heap[n].selector1) \o <<heap[n].combinator>> \o Tokens(heap[n].selector2)

\* tokens with one space between neighbours
RECURSIVE Spaced(_)
Spaced(tokens) ==
    IF Len(tokens) = 1 THEN Head(tokens)
    ELSE Head(tokens) \o " " \o Spaced(Tail(tokens))

\* the objects node n of heap h renders: its operands, and theirs
RECURSIVE Descendants(_, _)
Descendants(h, n) ==
    IF h[n].kind = "Selector" THEN {}
    ELSE {h[n].selector1, h[n].selector2}
         \cup Descendants(h, h[n].selector1) \cup Descendants(h, h[n].selector2)

\* C6: stringify() of a CombineSelector, nested to any depth, is
\* stringify(left) + ' ' + combinator + ' ' + stringify(right): operands and
\* combinators left to right with exactly one space on each side of every
\* combinator, so three spaces between the operands of a ' ' combinator.
C6_CombineStringifies ==
    (ret.op = "stringify" /\ IsCombine(ret.node))
        => LET left == stringify(heap, heap[ret.node].selector1).value
               right == stringify(heap, heap[ret.node].selector2).value
           IN  /\ ~ret.threw
               /\ ret.value = left \o " " \o heap[ret.node].combinator \o " " \o right
               /\ ret.value = Spaced(Tokens(ret.node))
               /\ heap[ret.node].combinator = " " => ret.value = left \o "   " \o right

C6_Witness ==
    /\ ret.op = "stringify"
    /\ IsCombine(ret.node)
    /\ heap[ret.node].combinator = "+"
    /\ IsSelector(heap[ret.node].selector1)
    /\ IsCombine(heap[ret.node].selector2)
    /\ ret.value = ".a + .a   .a"

\* C7: stringify() on a Selector or CombineSelector changes no slot of any
\* node, and called again with no call in between it returns the same string.
C7_StringifyIsPure ==
    [][ret'.op = "stringify"
          => /\ heap' = heap
             /\ ~ret'.threw
             /\ ret'.value = stringify(heap', ret'.node).value
             /\ (ret.op = "stringify" /\ ret.node = ret'.node) => ret'.value = ret.value]_vars

C7_Witness ==
    /\ ret.op = "stringify"
    /\ IsSelector(ret.node)
    /\ Len(heap[ret.node].cache.className) = 2
    /\ Len(heap) = 2

\* C8: a facade call returns a new Selector with the requested slot holding
\* the value and every other slot empty, and changes no existing object; a
\* fragment call on one Selector changes neither the slots nor the
\* stringify() result of any other Selector.
C8_SelectorsAreIndependent ==
    [][/\ ret'.op \in FacadeOps
          => /\ ret'.result \notin DOMAIN heap
             /\ ret'.result \in DOMAIN heap'
             /\ heap'[ret'.result].kind = "Selector"
             /\ \A i \in DOMAIN Types :
                  LET slot == heap'[ret'.result].cache[Types[i]]
                  IN  IF Types[i] \in SingletonTypes
                      THEN slot = IF Types[i] = FacadeTypeOf(ret'.op)
                                  THEN ret'.arg ELSE ""
                      ELSE slot = IF Types[i] = FacadeTypeOf(ret'.op)
                                  THEN <<ret'.arg>> ELSE <<>>
             /\ \A m \in DOMAIN heap : heap'[m] = heap[m]
       /\ ret'.op \in MethodOps
          => \A m \in DOMAIN heap \ {ret'.node} :
                /\ heap'[m] = heap[m]
                /\ IsSelector(m) => stringify(heap', m) = stringify(heap, m)]_vars

C8_Witness ==
    /\ Len(heap) = 2
    /\ IsSelector(1)
    /\ IsSelector(2)
    /\ ret.op = "attr"
    /\ ~ret.threw
    /\ ret.node = 1
    /\ Len(calls[2]) = 1

\* C9 as stated: once a node has been passed into combine its slots never
\* change, so stringify() of the CombineSelector is the same at every point
\* after its construction, whatever is invoked.
C9_OperandsAreFrozen ==
    [][\A c \in DOMAIN heap :
          heap[c].kind = "CombineSelector"
             => /\ \A d \in Descendants(heap, c) : heap'[d] = heap[d]
                /\ stringify(heap', c) = stringify(heap, c)]_vars

\* C9, amended: selector1, combinator and selector2 of a CombineSelector never
\* change, but its operands are references to nodes that still accept
\* fragment calls: an accepted fragment call on a Selector among its
\* descendants changes that Selector and with it stringify() of the
\* CombineSelector, and no other operation changes either.
C9_OnlyAcceptedCallsOnOperandsShow ==
    [][\A c \in DOMAIN heap :
          heap[c].kind = "CombineSelector"
             => LET accepted == /\ ret'.op \in MethodOps
                                /\ ~ret'.threw
                                /\ ret'.node \in Descendants(heap, c)
                IN  /\ heap'[c] = heap[c]
                    /\ \A d \in Descendants(heap, c) :
                          heap'[d] # heap[d] => (accepted /\ d = ret'.node)
                    /\ stringify(heap', c) # stringify(heap, c) => accepted]_vars

C9_Witness ==
    /\ Len(heap) = 2
    /\ IsCombine(2)
    /\ ret.op = "id"
    /\ ~ret.threw
    /\ ret.node = heap[2].selector1
    /\ stringify(heap, 2).value = "a#a + a#a"

\* C10: only fragment calls fail, and only with the duplicate or the ordering
\* error: combine throws for no combinator and no pair of nodes, and
\* stringify() throws on no node.
C10_OnlyFragmentCallsFail ==
    /\ ret.threw => (ret.op \in MethodOps /\ ret.error \in {DuplicateError, OrderError})
    /\ ret.op = "builder.combine" => (~ret.threw /\ IsCombine(ret.result))
    /\ \A n \in DOMAIN heap : ~stringify(heap, n).threw
    /\ Room => \A selector1, selector2 \in DOMAIN heap, combinator \in Combinators :
                  ENABLED builder_combine(selector1, combinator, selector2)

C10_Witness ==
    /\ ret.op = "stringify"
    /\ ~ret.threw
    /\ IsCombine(ret.node)
    /\ IsCombine(heap[ret.node].selector1)
    /\ heap[ret.node].selector2 = heap[ret.node].selector1
    /\ heap[ret.node].combinator = " "

---------------------------------------------------------------------------
(* Properties of the single methods, checked under Spec *)

\* a slot of a category after type holds something
LaterPresent(cache, type) ==
    \E i \in DOMAIN Types : Index(type) < i /\ Occupied(cache, Types[i])

\* C11: id(value) checks duplication before order: with the id slot filled
\* and a class, attribute, pseudo-class or pseudo-element present it raises
\* the duplicate error; with the id slot empty and one of those present it
\* raises the ordering error; with the slot empty and none present it
\* succeeds and sets id to value.
C11_IdChecksDuplicateBeforeOrder ==
    [][ret'.op = "id"
          => LET cache == heap[ret'.node].cache
                 filled == cache.id # ""
                 later == LaterPresent(cache, "id")
             IN  /\ (filled /\ later)
                      => (ret'.threw /\ ret'.error = DuplicateError)
                 /\ (~filled /\ later)
                      => (ret'.threw /\ ret'.error = OrderError)
                 /\ (~filled /\ ~later)
                      => /\ ~ret'.threw
                         /\ heap'[ret'.node].cache = [cache EXCEPT !.id = ret'.arg]]_vars

C11_Witness ==
    /\ ret.op = "id"
    /\ ret.error = DuplicateError
    /\ heap[ret.node].cache.id = "a"
    /\ Len(heap[ret.node].cache.className) = 1
    /\ Len(heap[ret.node].cache.pseudoClass) = 1

\* C12: pseudoElement(value) never raises the ordering error: with no
\* pseudo-element set it succeeds and sets the slot to value, and it fails
\* only with the duplicate error, when the slot is set; once a call of it has
\* succeeded on a node, every later fragment call on that node is rejected.
C12_PseudoElementClosesTheNode ==
    [][/\ ret'.op = "pseudoElement"
          => LET cache == heap[ret'.node].cache
             IN  IF cache.pseudoElement = ""
                 THEN /\ ~ret'.threw
                      /\ heap'[ret'.node].cache =
                            [cache EXCEPT !.pseudoElement = ret'.arg]
                 ELSE ret'.threw /\ ret'.error = DuplicateError
       /\ (/\ ret'.op \in MethodOps
           /\ \E i \in 2..Len(calls[ret'.node]) :
                 calls[ret'.node][i].type = "pseudoElement")
          => ret'.threw]_vars

\* the keys of the cache that hold arrays
ArrayTypes == {"className", "attribute", "pseudoClass"}

\* sequence a is the beginning of sequence b
IsPrefix(a, b) == Len(a) <= Len(b) /\ SubSeq(b, 1, Len(a)) = a

\* C13: className, attribute and pseudoClass are append-only: an accepted
\* class, attr or pseudoClass call appends its value as one entry at the end
\* of its own array, duplicates kept, and leaves the other five slots as they
\* were; no operation removes or reorders an entry.
C13_ArraysAreAppendOnly ==
    [][/\ \A n \in DOMAIN heap : \A type \in ArrayTypes :
             heap[n].kind = "Selector"
                => IsPrefix(heap[n].cache[type], heap'[n].cache[type])
       /\ (ret'.op \in {"class", "attr", "pseudoClass"} /\ ~ret'.threw)
          => LET cache == heap[ret'.node].cache
                 type == TypeOf(ret'.op)
             IN  /\ heap'[ret'.node].cache[type] = Append(cache[type], ret'.arg)
                 /\ \A i \in DOMAIN Types :
                       Types[i] # type
                          => heap'[ret'.node].cache[Types[i]] = cache[Types[i]]]_vars

C13_Witness ==
    /\ ret.op = "pseudoClass"
    /\ ~ret.threw
    /\ heap[ret.node].cache.className = <<"a", "a">>
    /\ heap[ret.node].cache.pseudoClass = <<"a", "", "a">>

\* C14: a fragment call that does not throw returns the node it was called
\* on, not a copy: the chain stays one object, the one the facade returned,
\* and that object holds every fragment accepted since.
C14_AcceptedCallReturnsThis ==
    (ret.op \in MethodOps /\ ~ret.threw)
        => /\ ret.result = ret.node
           /\ Len(heap) = 1
           /\ calls[ret.node][Len(calls[ret.node])] = LastCall
           /\ stringify(heap, 1).value = Expected(calls[ret.result])

C14_Witness ==
    /\ ret.op = "pseudoElement"
    /\ ~ret.threw
    /\ ret.result = 1
    /\ Len(calls[1]) = 5
    /\ stringify(heap, 1).value = "#a.a[a]:a::a"

\* C15: element() called on a Selector never succeeds: it raises the
\* duplicate error when the element slot is non-empty and the ordering error
\* otherwise, and it never writes the slot, which holds the value given to
\* the facade's element(...) or nothing.
C15_ElementMethodAlwaysThrows ==
    /\ ret.op = "element"
          => /\ ret.threw
             /\ ret.error = IF heap[ret.node].cache.element # ""
                            THEN DuplicateError ELSE OrderError
    /\ \A n \in DOMAIN heap :
          heap[n].kind = "Selector"
             => /\ heap[n].cache.element =
                      IF calls[n][1].type = "element" THEN calls[n][1].value ELSE ""
                /\ \A i \in 2..Len(calls[n]) : calls[n][i].type # "element"

C15_Witness ==
    /\ ret.op = "element"
    /\ ret.error = OrderError
    /\ heap[ret.node].cache.element = ""
    /\ heap[ret.node].cache.id = "a"
    /\ calls[ret.node][1] = [type |-> "element", value |-> ""]

\* C16: the element, id and pseudoElement slots are write-once: once one of
\* them holds a non-empty value, no operation, accepted or rejected, changes
\* that value.
C16_SingletonsAreWriteOnce ==
    [][\A n \in DOMAIN heap : \A type \in SingletonTypes :
          (heap[n].kind = "Selector" /\ heap[n].cache[type] # "")
             => /\ n \in DOMAIN heap'
                /\ heap'[n].kind = "Selector"
                /\ heap'[n].cache[type] = heap[n].cache[type]]_vars

C16_Witness ==
    /\ ret.op = "pseudoElement"
    /\ ret.threw
    /\ ret.arg = ""
    /\ heap[ret.node].cache.element = "a"
    /\ heap[ret.node].cache.id = "a"
    /\ heap[ret.node].cache.pseudoElement = "a"

\* the keys of the cache that are occupied
OccupiedTypes(cache) == {Types[i] : i \in {j \in DOMAIN Types : Occupied(cache, Types[j])}}

\* whether method op is accepted on a node whose occupied keys are occ:
\* element never, id and pseudoElement only with their own key free, and
\* every method only with no key of a later category occupied
AcceptedOn(op, occ) ==
    /\ op # "element"
    /\ TypeOf(op) \in SingletonTypes => TypeOf(op) \notin occ
    /\ \A type \in occ : Index(type) <= Index(TypeOf(op))

\* C18: whether a fragment call is accepted depends only on which slots are
\* occupied, element, id and pseudoElement being occupied when they hold a
\* non-empty string and the arrays as soon as they hold an entry, even an
\* empty string: after the facade's pseudoElement('') or id('') the slot
\* counts as unset, after class('') a later id(...) raises the ordering error.
C18_AcceptanceFollowsOccupancy ==
    [][ret'.op \in MethodOps
          => LET history == calls[ret'.node]
                 cache == heap[ret'.node].cache
             IN  /\ ~ret'.threw <=> AcceptedOn(ret'.op, OccupiedTypes(cache))
                 /\ (/\ history \in {<<[type |-> "pseudoElement", value |-> ""]>>,
                                     <<[type |-> "id", value |-> ""]>>}
                     /\ ret'.op # "element")
                       => ~ret'.threw
                 /\ (/\ history = <<[type |-> "className", value |-> ""]>>
                     /\ ret'.op = "id")
                       => (ret'.threw /\ ret'.error = OrderError)]_vars

C18_Witness ==
    /\ ret.op = "id"
    /\ ret.error = OrderError
    /\ ret.arg = "a"
    /\ calls[ret.node] = <<[type |-> "pseudoElement", value |-> ""],
                           [type |-> "className", value |-> ""]>>

---------------------------------------------------------------------------
(* The graph of objects, checked under SpecTree *)

\* the objects a node refers to
Operands(n) ==
    IF n \in DOMAIN heap /\ heap[n].kind = "CombineSelector"
    THEN {heap[n].selector1, heap[n].selector2} ELSE {}

\* the nodes reached from the set S in at most k steps along Operands
RECURSIVE ReachedFrom(_, _)
ReachedFrom(S, k) ==
    IF k = 0 THEN S
    ELSE ReachedFrom(S \cup UNION {Operands(m) : m \in S}, k - 1)

\* everything below node n
Below(n) == ReachedFrom(Operands(n), Len(heap))

\* C17: the graph of nodes is acyclic: the operands of a CombineSelector are
\* nodes that existed when it was constructed, so no node is below itself
\* (one node may be both operands, or an operand of several nodes), and
\* stringify() on every node terminates with a result.
C17_GraphIsAcyclic ==
    /\ \A n \in DOMAIN heap : Operands(n) \subseteq 1..(n - 1)
    /\ \A n \in DOMAIN heap : n \notin Below(n)
    /\ \A n \in DOMAIN heap : ~stringify(heap, n).threw

C17_Witness ==
    /\ Len(heap) = 3
    /\ IsCombine(2)
    /\ heap[2].selector1 = 1
    /\ heap[2].selector2 = 1
    /\ IsCombine(3)
    /\ heap[3].selector1 = 2
    /\ heap[3].selector2 = 1
    /\ ret.op = "stringify"
    /\ ret.node = 3
    /\ ~ret.threw

====
